---- MODULE Spec2Model ----
(***************************************************************************)
(* A model of the rac-rs client library: the synchronous stream client     *)
(* (src/src/client.rs), the asynchronous stream client                     *)
(* (src/src/async_client.rs) and the WebSocket client (src/src/wrac.rs).   *)
(*                                                                         *)
(* Strings and byte buffers are sequences of numbers (bytes, or code       *)
(* points once a buffer went through String::from_utf8_lossy).  An Option  *)
(* is a sequence of length 0 (None) or 1 (Some).  The server and the       *)
(* network are the environment: every handler takes a script s that says   *)
(* how the connect, each write and each read of that call end.             *)
(***************************************************************************)
EXTENDS Integers, Sequences, FiniteSets, TLC

VARIABLES
    variant,                \* "sync" (client.rs), "async" (async_client.rs), "wrac" (wrac.rs)
    current_messages_size,  \* the cursor
    address,
    username,
    password,               \* Option<String>
    use_tls,
    ws_connection,          \* Option<WsStream>, wrac only
    local_ws,               \* the `ws` local of a running wrac handler (get_ws's result)
    pc,                     \* position of the running wrac handler, "idle" between calls
    srv_log,                \* the server's message log
    last                    \* the last call: operation, argument, result, transport trace

vars == <<variant, current_messages_size, address, username, password, use_tls,
          ws_connection, local_ws, pc, srv_log, last>>

(***************************************************************************)
(* Bounds of the model.                                                    *)
(***************************************************************************)
\* usize::MAX, scaled down so that a short decimal string overflows it
UsizeMax == 15
\* longest server log
MaxLog == 2
\* longest size response of the wire specification
MaxReplyLen == 2
\* longest status reply of the wire specification
MaxStatusLen == 2
\* the longest message log a server starts with
MaxBlob == 5

(***************************************************************************)
(* Buffer capacities of the read calls.                                    *)
(***************************************************************************)
SizeBufLen == 1024
StatusBufLen == 2
AsyncSendBufLen == 16

(***************************************************************************)
(* Alphabets.  Bytes >= 128 are only ever 255, which is never part of a    *)
(* valid UTF-8 sequence.                                                   *)
(***************************************************************************)
\* NUL, space, '+', '0', '1', '9'
SizeBytes == {0, 32, 43, 48, 49, 57}
\* 0x01, 0x02, 0x05, 0xFF
StatusBytes == {1, 2, 5, 255}
\* 'a', '\n'
LogBytes == {97, 10}

SeqsUpTo(S, n) == UNION {[1..k -> S] : k \in 0..n}

None == <<>>
Some(x) == <<x>>
is_some(o) == Len(o) = 1
is_none(o) == Len(o) = 0
unwrap(o) == o[1]

Min(a, b) == IF a < b THEN a ELSE b
Take(s, n) == SubSeq(s, 1, Min(n, Len(s)))

(***************************************************************************)
(* Text conversions.                                                       *)
(***************************************************************************)
\* String::from_utf8_lossy: an invalid byte becomes U+FFFD
\* mutant: only the first byte is decoded
from_utf8_lossy_first(b) ==
    [i \in 1..Min(1, Len(b)) |-> IF b[i] < 128 THEN b[i] ELSE 65533]

from_utf8_lossy(b) == [i \in 1..Len(b) |-> IF b[i] < 128 THEN b[i] ELSE 65533]

\* Vec::retain(|&x| x != 0)
remove_nulls(data) == SelectSeq(data, LAMBDA x : x # 0)

\* format!("{}", n) of a usize
RECURSIVE to_decimal(_)
to_decimal(n) ==
    IF n < 10 THEN <<48 + n>> ELSE to_decimal(n \div 10) \o <<48 + (n % 10)>>

IsDigit(c) == c \in 48..57

\* the digit loop of usize::from_str: checked multiply and add, -1 on overflow
RECURSIVE acc_digits_unchecked(_, _)
acc_digits_unchecked(d, acc) ==
    IF d = <<>> THEN acc
    ELSE acc_digits_unchecked(Tail(d), (acc * 10 + (Head(d) - 48)) % (UsizeMax + 1))

RECURSIVE acc_digits(_, _)
acc_digits(d, acc) ==
    IF d = <<>> THEN acc
    ELSE LET n == acc * 10 + (Head(d) - 48)
         IN  IF n > UsizeMax THEN -1 ELSE acc_digits(Tail(d), n)

ParseErr == [ok |-> FALSE, v |-> 0]

\* str::parse::<usize>(): an optional '+', then one or more digits, no overflow
parse_usize(s) ==
    IF s = <<>> THEN ParseErr
    ELSE IF Len(s) = 1 /\ s[1] \in {43, 45} THEN ParseErr
    ELSE LET d == IF s[1] = 43 THEN Tail(s) ELSE s
         IN  IF \E i \in 1..Len(d) : ~IsDigit(d[i]) THEN ParseErr
             ELSE LET v == acc_digits(d, 0)
                  IN  IF v < 0 THEN ParseErr ELSE [ok |-> TRUE, v |-> v]

\* char::is_whitespace on the code points the model uses
IsWhite(c) == c \in {9, 10, 11, 12, 13, 32}

RECURSIVE trim_start(_)
trim_start(s) == IF s # <<>> /\ IsWhite(Head(s)) THEN trim_start(Tail(s)) ELSE s

RECURSIVE trim_end(_)
trim_end(s) ==
    IF s # <<>> /\ IsWhite(s[Len(s)]) THEN trim_end(SubSeq(s, 1, Len(s) - 1)) ELSE s

\* str::trim
trim(s) == trim_end(trim_start(s))

FirstIndex(s, c) ==
    IF \E i \in 1..Len(s) : s[i] = c
    THEN CHOOSE i \in 1..Len(s) : s[i] = c /\ \A j \in 1..(i - 1) : s[j] # c
    ELSE 0

StripCR(l) == IF l # <<>> /\ l[Len(l)] = 13 THEN SubSeq(l, 1, Len(l) - 1) ELSE l

\* str::lines: split at "\n" or "\r\n", the last line needs no terminator
RECURSIVE lines(_)
lines(s) ==
    IF s = <<>> THEN <<>>
    ELSE LET i == FirstIndex(s, 10)
         IN  IF i = 0 THEN <<s>>
             ELSE <<StripCR(SubSeq(s, 1, i - 1))>> \o lines(SubSeq(s, i + 1, Len(s)))

\* mutant: the empty lines are kept
messages_of_keeps_empty(text) == lines(text)

\* .lines().filter(|l| !l.is_empty()).collect()
messages_of(text) == SelectSeq(lines(text), LAMBDA l : l # <<>>)

HexDigit(d) == IF d < 10 THEN 48 + d ELSE 87 + d

\* format!("0x{code:02x}")
hex_code_unpadded(code) ==
    IF code < 16 THEN <<48, 120, HexDigit(code)>>
    ELSE <<48, 120, HexDigit(code \div 16), HexDigit(code % 16)>>

hex_code(code) == <<48, 120, HexDigit(code \div 16), HexDigit(code % 16)>>

\* "{username}"
Placeholder == <<123, 117, 115, 101, 114, 110, 97, 109, 101, 125>>

StartsWith(s, p) == Len(s) >= Len(p) /\ SubSeq(s, 1, Len(p)) = p

\* mutant: only the first occurrence is replaced
RECURSIVE replace_first(_, _, _)
replace_first(s, from, to) ==
    IF s = <<>> THEN <<>>
    ELSE IF StartsWith(s, from) THEN to \o SubSeq(s, Len(from) + 1, Len(s))
    ELSE <<Head(s)>> \o replace_first(Tail(s), from, to)

\* str::replace(from, to), from non-empty
RECURSIVE replace(_, _, _)
replace(s, from, to) ==
    IF s = <<>> THEN <<>>
    ELSE IF StartsWith(s, from)
         THEN to \o replace(SubSeq(s, Len(from) + 1, Len(s)), from, to)
         ELSE <<Head(s)>> \o replace(Tail(s), from, to)

(***************************************************************************)
(* Transport calls.  A handler's trace `io` lists the calls it made on     *)
(* transports, in order.  A read outcome of the script is [k, b]: k is     *)
(* "data" (stream bytes, or a binary frame), "text" or "other" (a text     *)
(* frame, a ping/pong/close frame; wrac only) or "err".                    *)
(***************************************************************************)
Ev(k, b) == [k |-> k, b |-> b]
EvOpen == Ev("open", <<>>)
EvOpenFail == Ev("open_fail", <<>>)
EvClose == Ev("close", <<>>)
EvWrite(b) == Ev("write", b)
EvWriteFail(b) == Ev("write_fail", b)
EvReadFail == Ev("read_fail", <<>>)
EvRead(r) == IF r.k = "err" THEN EvReadFail
             ELSE Ev(IF r.k = "data" THEN "read"
                     ELSE IF r.k = "text" THEN "read_text" ELSE "read_other", r.b)

Data(b) == [k |-> "data", b |-> b]
Text(b) == [k |-> "text", b |-> b]
OtherFrame == [k |-> "other", b |-> <<>>]
ReadErr == [k |-> "err", b |-> <<>>]

\* what a call returns and leaves behind: the result, the payload of an
\* UnexpectedResponse, the messages of a fetch, the cursor, the transport calls
Result(res, payload, msgs, cur, io) ==
    [res |-> res, payload |-> payload, msgs |-> msgs, cur |-> cur, io |-> io]

\* a return that carries no payload and leaves the cursor as it is
Ret(res, io) == Result(res, <<>>, <<>>, current_messages_size, io)

\* Read::read_exact into a buffer of n bytes: an empty buffer is filled without
\* touching the stream, a short stream is an UnexpectedEof error
read_exact(n, r) ==
    IF n = 0 THEN [ok |-> TRUE, b |-> <<>>]
    ELSE IF r.k # "data" \/ Len(r.b) < n THEN [ok |-> FALSE, b |-> <<>>]
    ELSE [ok |-> TRUE, b |-> SubSeq(r.b, 1, n)]

EvReadExact(n, r) ==
    IF n = 0 THEN <<>>
    ELSE IF read_exact(n, r).ok THEN <<Ev("read", SubSeq(r.b, 1, n))>>
    ELSE <<EvReadFail>>

\* the request frames
register_frame == <<3>> \o username \o <<10>> \o unwrap(password)
auth_frame(message) == <<2>> \o username \o <<10>> \o unwrap(password) \o <<10>> \o message
\* mutant: the anonymous send is tagged as an authenticated one
anon_frame_tagged_auth(message) == <<2>> \o message

anon_frame(message) == <<1>> \o message

\* vec![0u8; size - self.current_messages_size] when size < cursor: with overflow
\* checks the subtraction panics; without, it wraps, and a length above
\* isize::MAX panics in the allocation
IsizeMax == UsizeMax \div 2
wrapping_sub(a, b) == (a - b) % (UsizeMax + 1)

\* mutant: the length is clamped to zero (saturating_sub)
delta_len_saturating(size) ==
    IF size < current_messages_size THEN 0 ELSE size - current_messages_size

\* the length of the delta buffer: size - self.current_messages_size
delta_len(size) == wrapping_sub(size, current_messages_size)

(***************************************************************************)
(* client.rs: the synchronous stream client.                               *)
(***************************************************************************)
Client_register_user(s) ==
    IF s.conn # "Ok" THEN Ret(s.conn, <<EvOpenFail>>)
    ELSE IF is_some(password) THEN
        IF ~s.w1 THEN Ret("StreamWriteError", <<EvOpen, EvWriteFail(register_frame), EvClose>>)
        ELSE LET io == <<EvOpen, EvWrite(register_frame)>>
             IN  IF s.r1.k = "err" THEN Ret("StreamReadError", io \o <<EvReadFail, EvClose>>)
                 ELSE LET buf == Take(s.r1.b, StatusBufLen)
                          io2 == io \o <<Ev("read", buf), EvClose>>
                      IN  IF Len(buf) = 0 THEN Ret("Ok", io2)
                          ELSE IF buf[1] = 1 THEN Ret("UsernameAlreadyTaken", io2)
                          ELSE Result("UnexpectedResponse", from_utf8_lossy(buf), <<>>,
                                      current_messages_size, io2)
    ELSE Ret("NoPassword", <<EvOpen, EvClose>>)

Client_fetch_messages_size(s) ==
    IF s.conn # "Ok" THEN Ret(s.conn, <<EvOpenFail>>)
    ELSE IF ~s.w1 THEN Ret("StreamWriteError", <<EvOpen, EvWriteFail(<<0>>), EvClose>>)
    ELSE LET io == <<EvOpen, EvWrite(<<0>>)>>
         IN  IF s.r1.k = "err" THEN Ret("StreamReadError", io \o <<EvReadFail, EvClose>>)
             ELSE LET buf == Take(s.r1.b, SizeBufLen)
                      io2 == io \o <<Ev("read", buf), EvClose>>
                      size == parse_usize(from_utf8_lossy(buf))
                  IN  IF size.ok THEN Result("Ok", <<>>, <<>>, size.v, io2)
                      ELSE Ret("ParseError", io2)

Client_fetch_all_messages(s) ==
    IF s.conn # "Ok" THEN Ret(s.conn, <<EvOpenFail>>)
    ELSE IF ~s.w1 THEN Ret("StreamWriteError", <<EvOpen, EvWriteFail(<<0>>), EvClose>>)
    ELSE LET io == <<EvOpen, EvWrite(<<0>>)>>
         IN  IF s.r1.k = "err" THEN Ret("StreamReadError", io \o <<EvReadFail, EvClose>>)
             ELSE LET head == Take(s.r1.b, SizeBufLen)
                      io2 == io \o <<Ev("read", head)>>
                      size == parse_usize(from_utf8_lossy(head))
                  IN  IF ~size.ok THEN Ret("ParseError", io2 \o <<EvClose>>)
                      \* self.current_messages_size = size, before the bulk transfer
                      ELSE IF ~s.w2
                      THEN Result("StreamWriteError", <<>>, <<>>, size.v,
                                  io2 \o <<EvWriteFail(<<1>>), EvClose>>)
                      ELSE LET buffer == read_exact(size.v, s.r2)
                               io3 == io2 \o <<EvWrite(<<1>>)>> \o EvReadExact(size.v, s.r2)
                                          \o <<EvClose>>
                           IN  IF ~buffer.ok
                               THEN Result("StreamReadError", <<>>, <<>>, size.v, io3)
                               ELSE Result("Ok", <<>>, messages_of(from_utf8_lossy(buffer.b)),
                                           size.v, io3)

Client_fetch_new_messages(s) ==
    IF s.conn # "Ok" THEN Ret(s.conn, <<EvOpenFail>>)
    ELSE IF ~s.w1 THEN Ret("StreamWriteError", <<EvOpen, EvWriteFail(<<0>>), EvClose>>)
    ELSE LET io == <<EvOpen, EvWrite(<<0>>)>>
         IN  IF s.r1.k = "err" THEN Ret("StreamReadError", io \o <<EvReadFail, EvClose>>)
             ELSE LET head == Take(s.r1.b, SizeBufLen)
                      io2 == io \o <<Ev("read", head)>>
                      size == parse_usize(from_utf8_lossy(head))
                      req == <<2>> \o to_decimal(current_messages_size)
                  IN  IF ~size.ok THEN Ret("ParseError", io2 \o <<EvClose>>)
                      ELSE IF ~s.w2
                      THEN Ret("StreamWriteError", io2 \o <<EvWriteFail(req), EvClose>>)
                      ELSE LET io3 == io2 \o <<EvWrite(req)>>
                               under == size.v < current_messages_size
                               n == delta_len(size.v)
                           IN  IF under /\ (s.chk \/ n > IsizeMax)
                               THEN Ret("Panic", io3 \o <<EvClose>>)
                               ELSE LET buffer == read_exact(n, s.r2)
                                        io4 == io3 \o EvReadExact(n, s.r2) \o <<EvClose>>
                                    IN  IF ~buffer.ok THEN Ret("StreamReadError", io4)
                                        ELSE Result("Ok", <<>>,
                                                    messages_of(from_utf8_lossy(buffer.b)),
                                                    size.v, io4)

Client_send_custom_message(message, s) ==
    IF s.conn # "Ok" THEN Ret(s.conn, <<EvOpenFail>>)
    ELSE IF is_some(password) THEN
        IF ~s.w1
        THEN Ret("StreamWriteError", <<EvOpen, EvWriteFail(auth_frame(message)), EvClose>>)
        ELSE LET io == <<EvOpen, EvWrite(auth_frame(message))>>
             IN  IF s.r1.k = "err" THEN Ret("StreamReadError", io \o <<EvReadFail, EvClose>>)
                 ELSE LET buf == Take(s.r1.b, StatusBufLen)
                          io2 == io \o <<Ev("read", buf), EvClose>>
                      IN  IF Len(buf) = 0 THEN Ret("Ok", io2)
                          ELSE IF buf[1] = 1 THEN Ret("UserDoesNotExist", io2)
                          ELSE IF buf[1] = 2 THEN Ret("IncorrectPassword", io2)
                          ELSE Result("UnexpectedResponse", from_utf8_lossy(buf), <<>>,
                                      current_messages_size, io2)
    ELSE IF ~s.w1
         THEN Ret("StreamWriteError", <<EvOpen, EvWriteFail(anon_frame(message)), EvClose>>)
         ELSE Ret("Ok", <<EvOpen, EvWrite(anon_frame(message)), EvClose>>)

Client_send_message(message, s) ==
    Client_send_custom_message(replace(message, Placeholder, username), s)

\* mutant: the stream of the connection test is never dropped
Client_test_connection_keeps_stream(s) ==
    IF s.conn # "Ok" THEN Ret(s.conn, <<EvOpenFail>>) ELSE Ret("Ok", <<EvOpen>>)

Client_test_connection(s) ==
    IF s.conn # "Ok" THEN Ret(s.conn, <<EvOpenFail>>) ELSE Ret("Ok", <<EvOpen, EvClose>>)

(***************************************************************************)
(* async_client.rs: the asynchronous stream client.                        *)
(***************************************************************************)
\* the size step shared by the three fetches: the n == 0 test, remove_nulls on
\* the whole 1024-byte vector (which shortens it), then the slice head[..n],
\* which panics when n exceeds the shortened length
AsyncClient_size_step(r) ==
    LET n == Min(Len(r.b), SizeBufLen)
        \* the bytes past n are the vector's initial zeros: all of them go too
        head == remove_nulls(Take(r.b, SizeBufLen))
    IN  IF n = 0 THEN [res |-> "ServerClosedConnection", v |-> 0]
        ELSE IF n > Len(head) THEN [res |-> "Panic", v |-> 0]
        ELSE LET size == parse_usize(from_utf8_lossy(SubSeq(head, 1, n)))
             IN  IF size.ok THEN [res |-> "Ok", v |-> size.v]
                 ELSE [res |-> "ParseError", v |-> 0]

AsyncClient_register_user(s) ==
    IF s.conn # "Ok" THEN Ret(s.conn, <<EvOpenFail>>)
    ELSE IF is_some(password) THEN
        IF ~s.w1 THEN Ret("StreamWriteError", <<EvOpen, EvWriteFail(register_frame), EvClose>>)
        ELSE LET io == <<EvOpen, EvWrite(register_frame)>>
             IN  IF s.r1.k = "err" THEN Ret("StreamReadError", io \o <<EvReadFail, EvClose>>)
                 ELSE LET buf == Take(s.r1.b, StatusBufLen)
                          io2 == io \o <<Ev("read", buf), EvClose>>
                      IN  IF Len(buf) = 0 THEN Ret("Ok", io2)
                          ELSE IF buf[1] = 1 THEN Ret("UsernameAlreadyTaken", io2)
                          ELSE Result("UnexpectedResponse", from_utf8_lossy(buf), <<>>,
                                      current_messages_size, io2)
    ELSE Ret("NoPassword", <<EvOpen, EvClose>>)

AsyncClient_fetch_messages_size(s) ==
    IF s.conn # "Ok" THEN Ret(s.conn, <<EvOpenFail>>)
    ELSE IF ~s.w1 THEN Ret("StreamWriteError", <<EvOpen, EvWriteFail(<<0>>), EvClose>>)
    ELSE LET io == <<EvOpen, EvWrite(<<0>>)>>
         IN  IF s.r1.k = "err" THEN Ret("StreamReadError", io \o <<EvReadFail, EvClose>>)
             ELSE LET io2 == io \o <<Ev("read", Take(s.r1.b, SizeBufLen)), EvClose>>
                      size == AsyncClient_size_step(s.r1)
                  IN  IF size.res = "Ok" THEN Result("Ok", <<>>, <<>>, size.v, io2)
                      ELSE Ret(size.res, io2)

AsyncClient_fetch_all_messages(s) ==
    IF s.conn # "Ok" THEN Ret(s.conn, <<EvOpenFail>>)
    ELSE IF ~s.w1 THEN Ret("StreamWriteError", <<EvOpen, EvWriteFail(<<0>>), EvClose>>)
    ELSE LET io == <<EvOpen, EvWrite(<<0>>)>>
         IN  IF s.r1.k = "err" THEN Ret("StreamReadError", io \o <<EvReadFail, EvClose>>)
             ELSE LET io2 == io \o <<Ev("read", Take(s.r1.b, SizeBufLen))>>
                      size == AsyncClient_size_step(s.r1)
                  IN  IF size.res # "Ok" THEN Ret(size.res, io2 \o <<EvClose>>)
                      \* self.current_messages_size = size, before the bulk transfer
                      ELSE IF ~s.w2
                      THEN Result("StreamWriteError", <<>>, <<>>, size.v,
                                  io2 \o <<EvWriteFail(<<1>>), EvClose>>)
                      ELSE LET buffer == read_exact(size.v, s.r2)
                               io3 == io2 \o <<EvWrite(<<1>>)>> \o EvReadExact(size.v, s.r2)
                                          \o <<EvClose>>
                           IN  IF ~buffer.ok
                               THEN Result("StreamReadError", <<>>, <<>>, size.v, io3)
                               ELSE Result("Ok", <<>>,
                                           messages_of(from_utf8_lossy(remove_nulls(buffer.b))),
                                           size.v, io3)

AsyncClient_fetch_new_messages(s) ==
    IF s.conn # "Ok" THEN Ret(s.conn, <<EvOpenFail>>)
    ELSE IF ~s.w1 THEN Ret("StreamWriteError", <<EvOpen, EvWriteFail(<<0>>), EvClose>>)
    ELSE LET io == <<EvOpen, EvWrite(<<0>>)>>
         IN  IF s.r1.k = "err" THEN Ret("StreamReadError", io \o <<EvReadFail, EvClose>>)
             ELSE LET io2 == io \o <<Ev("read", Take(s.r1.b, SizeBufLen))>>
                      size == AsyncClient_size_step(s.r1)
                      req == <<2>> \o to_decimal(current_messages_size)
                  IN  IF size.res # "Ok" THEN Ret(size.res, io2 \o <<EvClose>>)
                      ELSE IF ~s.w2
                      THEN Ret("StreamWriteError", io2 \o <<EvWriteFail(req), EvClose>>)
                      ELSE LET io3 == io2 \o <<EvWrite(req)>>
                               under == size.v < current_messages_size
                               n == delta_len(size.v)
                           IN  IF under /\ (s.chk \/ n > IsizeMax)
                               THEN Ret("Panic", io3 \o <<EvClose>>)
                               ELSE LET buffer == read_exact(n, s.r2)
                                        io4 == io3 \o EvReadExact(n, s.r2) \o <<EvClose>>
                                    IN  IF ~buffer.ok THEN Ret("StreamReadError", io4)
                                        \* the text is decoded before remove_nulls runs
                                        ELSE Result("Ok", <<>>,
                                                    messages_of(from_utf8_lossy(buffer.b)),
                                                    size.v, io4)

AsyncClient_send_custom_message(message, s) ==
    IF s.conn # "Ok" THEN Ret(s.conn, <<EvOpenFail>>)
    ELSE IF is_some(password) THEN
        IF ~s.w1
        THEN Ret("StreamWriteError", <<EvOpen, EvWriteFail(auth_frame(message)), EvClose>>)
        ELSE LET io == <<EvOpen, EvWrite(auth_frame(message))>>
             IN  IF s.r1.k = "err" THEN Ret("StreamReadError", io \o <<EvReadFail, EvClose>>)
                 ELSE LET buf == Take(s.r1.b, AsyncSendBufLen)
                          io2 == io \o <<Ev("read", buf), EvClose>>
                      IN  IF Len(buf) = 0 THEN Ret("Ok", io2)
                          ELSE IF buf[1] = 1 THEN Ret("UserDoesNotExist", io2)
                          ELSE IF buf[1] = 2 THEN Ret("IncorrectPassword", io2)
                          ELSE Result("UnexpectedResponse", from_utf8_lossy(buf), <<>>,
                                      current_messages_size, io2)
    ELSE IF ~s.w1
         THEN Ret("StreamWriteError", <<EvOpen, EvWriteFail(anon_frame(message)), EvClose>>)
         ELSE Ret("Ok", <<EvOpen, EvWrite(anon_frame(message)), EvClose>>)

AsyncClient_send_message(message, s) ==
    AsyncClient_send_custom_message(replace(message, Placeholder, username), s)

AsyncClient_test_connection(s) ==
    IF s.conn # "Ok" THEN Ret(s.conn, <<EvOpenFail>>) ELSE Ret("Ok", <<EvOpen, EvClose>>)

(***************************************************************************)
(* wrac.rs: the WebSocket client.                                          *)
(***************************************************************************)
ConnIds == {1, 2}

live_transports == {c.id : c \in {ws_connection[i] : i \in 1..Len(ws_connection)}
                                 \cup {local_ws[i] : i \in 1..Len(local_ws)}}

\* "ws://", "wss://", "://", "/"
WsPrefix == <<119, 115, 58, 47, 47>>
WssPrefix == <<119, 115, 115, 58, 47, 47>>

WClient_build_url ==
    IF StartsWith(address, WsPrefix) \/ StartsWith(address, WssPrefix) THEN address
    ELSE (IF use_tls THEN <<119, 115, 115>> ELSE <<119, 115>>)
         \o <<58, 47, 47>> \o address \o <<47>>

\* the stream connect() hands back: a transport no one holds yet, made to the
\* address the session has at that moment
WClient_get_ws ==
    [id |-> CHOOSE i \in ConnIds : i \notin live_transports /\
                 \A j \in ConnIds : j \notin live_transports => i <= j,
     addr |-> address]

\* mutant: the no-growth test written with > for >=
WClient_no_growth_strict(old_size, new_size) == old_size > new_size

\* if old_size >= new_size: nothing new to fetch
\* mutant: only an unchanged total counts as no growth
WClient_no_growth_equal(old_size, new_size) == old_size = new_size

WClient_no_growth(old_size, new_size) == old_size >= new_size

\* mutant: the connection check passes without a connection
WClient_check_connection_passes == "Ok"

WClient_check_connection == IF is_none(ws_connection) THEN "NoConnectionWRAC" ELSE "Ok"

\* Message::Text(t) => t, Message::Binary(b) => from_utf8_lossy(b), _ => String::new()
frame_text(r) ==
    IF r.k = "text" THEN r.b ELSE IF r.k = "data" THEN from_utf8_lossy(r.b) ELSE <<>>

WClient_fetch_messages_size(s) ==
    IF WClient_check_connection # "Ok" THEN Ret("NoConnectionWRAC", <<>>)
    ELSE IF ~s.w1 THEN Ret("WsSendError", <<EvWriteFail(<<0>>)>>)
    ELSE LET io == <<EvWrite(<<0>>), EvRead(s.r1)>>
         IN  IF s.r1.k = "err" THEN Ret("WsReadError", io)
             ELSE LET size == parse_usize(trim(frame_text(s.r1)))
                  IN  IF size.ok THEN Result("Ok", <<>>, <<>>, size.v, io)
                      ELSE Ret("ParseError", io)

WClient_fetch_all_messages(s) ==
    LET sz == WClient_fetch_messages_size(s)
    IN  IF sz.res # "Ok" THEN sz
        ELSE IF ~s.w2
        THEN Result("WsSendError", <<>>, <<>>, sz.cur, sz.io \o <<EvWriteFail(<<1>>)>>)
        ELSE LET io == sz.io \o <<EvWrite(<<1>>), EvRead(s.r2)>>
             IN  IF s.r2.k = "err" THEN Result("WsReadError", <<>>, <<>>, sz.cur, io)
                 ELSE Result("Ok", <<>>, messages_of(frame_text(s.r2)), sz.cur, io)

WClient_fetch_new_messages(s) ==
    LET old_size == current_messages_size
        sz == WClient_fetch_messages_size(s)
        new_size == sz.cur
        \* format!("\x00\x02{}", self.current_messages_size), the cursor being new_size
        req == <<0, 2>> \o to_decimal(new_size)
    IN  IF sz.res # "Ok" THEN sz
        ELSE IF WClient_no_growth(old_size, new_size)
        THEN Result("Ok", <<>>, <<>>, new_size, sz.io)
        ELSE IF ~s.w2
        THEN Result("WsSendError", <<>>, <<>>, new_size, sz.io \o <<EvWriteFail(req)>>)
        ELSE LET io == sz.io \o <<EvWrite(req), EvRead(s.r2)>>
             IN  IF s.r2.k = "err" THEN Result("WsReadError", <<>>, <<>>, new_size, io)
                 ELSE Result("Ok", <<>>, messages_of(frame_text(s.r2)), new_size, io)

WClient_send_custom_message(message, s) ==
    IF WClient_check_connection # "Ok" THEN Ret("NoConnectionWRAC", <<>>)
    ELSE IF is_some(password) THEN
        IF ~s.w1 THEN Ret("WsSendError", <<EvWriteFail(auth_frame(message))>>)
        ELSE LET io == <<EvWrite(auth_frame(message)), EvRead(s.r1)>>
             IN  \* if let Ok(Message::Binary(buf)) = ws.read()
                 IF s.r1.k = "data" THEN
                     IF Len(s.r1.b) = 0 THEN Ret("Ok", io)
                     ELSE IF s.r1.b[1] = 1 THEN Ret("UserDoesNotExist", io)
                     ELSE IF s.r1.b[1] = 2 THEN Ret("IncorrectPassword", io)
                     ELSE Result("UnexpectedResponse", hex_code(s.r1.b[1]), <<>>,
                                 current_messages_size, io)
                 ELSE Ret("Ok", io)
    ELSE IF ~s.w1 THEN Ret("WsSendError", <<EvWriteFail(anon_frame(message))>>)
         ELSE Ret("Ok", <<EvWrite(anon_frame(message))>>)

WClient_send_message(message, s) ==
    WClient_send_custom_message(replace(message, Placeholder, username), s)

\* register_user after its get_ws succeeded: the exchange on the local `ws`,
\* which is dropped at the return
WClient_register_user(s) ==
    IF is_some(password) THEN
        IF ~s.w1 THEN Ret("WsSendError", <<EvOpen, EvWriteFail(register_frame), EvClose>>)
        ELSE LET io == <<EvOpen, EvWrite(register_frame), EvRead(s.r1), EvClose>>
             IN  IF s.r1.k = "data" THEN
                     IF Len(s.r1.b) = 0 THEN Ret("Ok", io)
                     ELSE IF s.r1.b[1] = 1 THEN Ret("UsernameAlreadyTaken", io)
                     ELSE Result("UnexpectedResponse", hex_code(s.r1.b[1]), <<>>,
                                 current_messages_size, io)
                 ELSE Ret("Ok", io)
    ELSE Ret("NoPassword", <<EvOpen, EvClose>>)

(***************************************************************************)
(* The three clients behind one interface.                                 *)
(***************************************************************************)
fetch_messages_size(s) ==
    CASE variant = "sync" -> Client_fetch_messages_size(s)
      [] variant = "async" -> AsyncClient_fetch_messages_size(s)
      [] variant = "wrac" -> WClient_fetch_messages_size(s)

\* mutant: a full fetch leaves the cursor where it was
fetch_all_messages_keeps_cursor(s) ==
    LET r == CASE variant = "sync" -> Client_fetch_all_messages(s)
               [] variant = "async" -> AsyncClient_fetch_all_messages(s)
               [] variant = "wrac" -> WClient_fetch_all_messages(s)
    IN  [r EXCEPT !.cur = current_messages_size]

fetch_all_messages(s) ==
    CASE variant = "sync" -> Client_fetch_all_messages(s)
      [] variant = "async" -> AsyncClient_fetch_all_messages(s)
      [] variant = "wrac" -> WClient_fetch_all_messages(s)

\* mutant: a successful delta fetch stores the length of the delta, not the total
fetch_new_messages_stores_delta(s) ==
    LET r == CASE variant = "sync" -> Client_fetch_new_messages(s)
               [] variant = "async" -> AsyncClient_fetch_new_messages(s)
               [] variant = "wrac" -> WClient_fetch_new_messages(s)
    IN  IF r.res = "Ok" THEN [r EXCEPT !.cur = wrapping_sub(r.cur, current_messages_size)]
        ELSE r

\* mutant: the learned total replaces the cursor before the delta request is
\* written, so the request carries the new total
fetch_new_messages_requests_new_total(s) ==
    LET r == CASE variant = "sync" -> Client_fetch_new_messages(s)
               [] variant = "async" -> AsyncClient_fetch_new_messages(s)
               [] variant = "wrac" -> WClient_fetch_new_messages(s)
    IN  IF variant # "wrac" /\ Len(r.io) >= 4 /\ r.io[4].k \in {"write", "write_fail"}
        THEN [r EXCEPT !.io[4].b =
                  <<2>> \o to_decimal(parse_usize(from_utf8_lossy(r.io[3].b)).v)]
        ELSE r

\* mutant: a successful delta fetch adds the learned total to the cursor
fetch_new_messages_adds_total(s) ==
    LET r == CASE variant = "sync" -> Client_fetch_new_messages(s)
               [] variant = "async" -> AsyncClient_fetch_new_messages(s)
               [] variant = "wrac" -> WClient_fetch_new_messages(s)
    IN  IF r.res = "Ok" THEN [r EXCEPT !.cur = current_messages_size + r.cur] ELSE r

fetch_new_messages(s) ==
    CASE variant = "sync" -> Client_fetch_new_messages(s)
      [] variant = "async" -> AsyncClient_fetch_new_messages(s)
      [] variant = "wrac" -> WClient_fetch_new_messages(s)

\* mutant: sending clears the cursor
send_custom_message_clears_cursor(message, s) ==
    LET r == CASE variant = "sync" -> Client_send_custom_message(message, s)
               [] variant = "async" -> AsyncClient_send_custom_message(message, s)
               [] variant = "wrac" -> WClient_send_custom_message(message, s)
    IN  [r EXCEPT !.cur = 0]

send_custom_message(message, s) ==
    CASE variant = "sync" -> Client_send_custom_message(message, s)
      [] variant = "async" -> AsyncClient_send_custom_message(message, s)
      [] variant = "wrac" -> WClient_send_custom_message(message, s)

\* mutant: the send without a password waits for a reply as well
send_message_reads_reply(message, s) ==
    LET r == CASE variant = "sync" -> Client_send_message(message, s)
               [] variant = "async" -> AsyncClient_send_message(message, s)
               [] variant = "wrac" -> WClient_send_message(message, s)
    IN  IF is_none(password) /\ r.res = "Ok"
        THEN [r EXCEPT !.res = IF s.r1.k = "err" THEN "StreamReadError" ELSE "Ok",
                       !.io = r.io \o <<EvRead(s.r1)>>]
        ELSE r

send_message(message, s) ==
    CASE variant = "sync" -> Client_send_message(message, s)
      [] variant = "async" -> AsyncClient_send_message(message, s)
      [] variant = "wrac" -> WClient_send_message(message, s)

\* the stream clients' register_user; wrac's runs in two steps, see below
\* mutant: the status table of send is used for register
register_user_send_table(s) ==
    LET r == IF variant = "sync" THEN Client_register_user(s) ELSE AsyncClient_register_user(s)
    IN  IF r.res = "UnexpectedResponse" /\ s.r1.b[1] = 2
        THEN [r EXCEPT !.res = "IncorrectPassword", !.payload = <<>>]
        ELSE r

register_user(s) ==
    IF variant = "sync" THEN Client_register_user(s) ELSE AsyncClient_register_user(s)

\* mutant: the connection test clears the cursor
test_connection_clears_cursor(s) ==
    LET r == IF variant = "sync" THEN Client_test_connection(s)
             ELSE AsyncClient_test_connection(s)
    IN  [r EXCEPT !.cur = 0]

test_connection(s) ==
    IF variant = "sync" THEN Client_test_connection(s) ELSE AsyncClient_test_connection(s)

\* reset: the fields it leaves behind
\* mutant: the stream client's reset clears the TLS flag too
Client_reset_clears_tls ==
    [cur |-> 0, address |-> <<>>, username |-> <<>>, password |-> None,
     use_tls |-> FALSE, ws |-> ws_connection, io |-> <<>>]

Client_reset ==
    [cur |-> 0, address |-> <<>>, username |-> <<>>, password |-> None,
     use_tls |-> use_tls, ws |-> ws_connection, io |-> <<>>]

AsyncClient_reset ==
    [cur |-> 0, address |-> <<>>, username |-> <<>>, password |-> None,
     use_tls |-> use_tls, ws |-> ws_connection, io |-> <<>>]

\* mutant: reset forgets to close and clear the connection
WClient_reset_keeps_connection ==
    [cur |-> 0, address |-> <<>>, username |-> <<>>, password |-> None,
     use_tls |-> FALSE, ws |-> ws_connection, io |-> <<>>]

WClient_reset ==
    [cur |-> 0, address |-> <<>>, username |-> <<>>, password |-> None,
     use_tls |-> FALSE, ws |-> None,
     io |-> IF is_some(ws_connection) THEN <<EvClose>> ELSE <<>>]

reset ==
    CASE variant = "sync" -> Client_reset
      [] variant = "async" -> AsyncClient_reset
      [] variant = "wrac" -> WClient_reset

(***************************************************************************)
(* The environment: what the callers pass and what the network answers.    *)
(***************************************************************************)
\* "h"
Addresses == {<<104>>}
\* "u"
Usernames == {<<117>>}
\* None, Some("p")
Passwords == {None, Some(<<112>>)}
\* "{username}"
Texts == {Placeholder}

Scr(c, w1, r1, w2, r2, chk) ==
    [conn |-> c, w1 |-> w1, r1 |-> r1, w2 |-> w2, r2 |-> r2, chk |-> chk]

\* TcpStream::connect, then the TLS handshake when use_tls; no address, no route
StreamConnOutcomes ==
    IF address = <<>> THEN {"ConnectionError"}
    ELSE {"Ok", "ConnectionError"} \cup (IF use_tls THEN {"TlsInitializationError"} ELSE {})

\* tungstenite's connect; with no host in the URL the request cannot be built
WsConnOutcomes ==
    IF address = <<>> THEN {"TlsInitializationError", "Panic"}
    ELSE {"Ok", "TlsInitializationError"}

\* wrac's operations run on the stored connection and connect nothing
ConnOutcomes == IF variant = "wrac" THEN {"Ok"} ELSE StreamConnOutcomes

\* the scripts of a call of one exchange, and of one of two exchanges
Scripts1(R1) ==
    {Scr(c, TRUE, ReadErr, TRUE, ReadErr, FALSE) : c \in ConnOutcomes \ {"Ok"}}
    \cup (IF "Ok" \in ConnOutcomes
          THEN {Scr("Ok", FALSE, ReadErr, TRUE, ReadErr, FALSE)}
               \cup {Scr("Ok", TRUE, r, TRUE, ReadErr, FALSE) : r \in R1}
          ELSE {})

\* the second exchange is scripted for the size reads that get the call there;
\* with overflow checks (chk) an underflow panics before the second read
Scripts2(R1, R2, CHK) ==
    LET Pass == {r \in R1 : fetch_messages_size(Scr("Ok", TRUE, r, TRUE, ReadErr, FALSE)).res
                               = "Ok"}
    IN  Scripts1(R1)
        \cup (IF "Ok" \in ConnOutcomes
              THEN {Scr("Ok", TRUE, r, FALSE, ReadErr, FALSE) : r \in Pass}
                   \cup {Scr("Ok", TRUE, x[1], TRUE, x[2], FALSE) : x \in Pass \X R2}
                   \cup {Scr("Ok", TRUE, r, TRUE, ReadErr, TRUE) : r \in Pass \cap CHK}
              ELSE {})

WsFrames(S) == IF variant = "wrac" THEN S ELSE {}

\* the size a truthful server reports, and the bytes it sends from the cursor on
TrueSize == to_decimal(Len(srv_log))
TrueDelta ==
    IF current_messages_size <= Len(srv_log)
    THEN SubSeq(srv_log, current_messages_size + 1, Len(srv_log)) ELSE <<>>

\* "", "0", "9"
CoreSizeReplies == {<<>>, <<48>>, <<57>>}

CoreSizeReads ==
    {ReadErr, Data(TrueSize)} \cup {Data(x) : x \in CoreSizeReplies}
    \cup WsFrames({Text(TrueSize), OtherFrame})

CoreBulkReads ==
    {ReadErr, Data(srv_log), Data(TrueDelta)} \cup WsFrames({Text(srv_log), OtherFrame})

CoreStatusReads ==
    {ReadErr} \cup {Data(x) : x \in {<<>>, <<1>>, <<2>>, <<5>>}}
    \cup WsFrames({Text(<<1>>), OtherFrame})

(***************************************************************************)
(* The state machine.                                                      *)
(***************************************************************************)
\* the session as a call finds it
Pre ==
    [cur |-> current_messages_size, address |-> address, username |-> username,
     password |-> password, use_tls |-> use_tls, ws |-> ws_connection]

\* no chain of fetches is recorded, and the start of a recording
NoChain == [on |-> FALSE, ok |-> FALSE, b |-> <<>>]
NewChain == [on |-> TRUE, ok |-> FALSE, b |-> <<>>]

\* the bytes fetched so far (history, kept when a recording is on): a successful
\* fetch_all starts the chain with its blob, a successful fetch_delta appends
\* its delta, any other fetch and reset break the chain
Chain(op, res, io) ==
    IF op = "new" THEN NoChain
    ELSE IF ~last.got.on \/ res = "Pending" THEN last.got
    ELSE LET reads == SelectSeq(io, LAMBDA e : e.k \in {"read", "read_text"})
             blob == IF Len(reads) >= 2 THEN reads[2].b ELSE <<>>
         IN  IF op = "fetch_all" /\ res = "Ok" THEN [on |-> TRUE, ok |-> TRUE, b |-> blob]
             ELSE IF op = "fetch_delta" /\ res = "Ok"
             THEN [last.got EXCEPT !.b = last.got.b \o blob]
             ELSE IF op \in {"fetch_size", "fetch_all", "fetch_delta", "reset"} THEN NewChain
             ELSE last.got

\* the record of a call: the operation, its argument, the session before it,
\* whether it is a fetch_delta directly after a successful fetch_all, the result ("Pending"
\* while a two-step handler runs), what Result explains, and the chain of fetches
CallFrom(pre, after_all, op, arg, res, payload, msgs, io) ==
    [op |-> op, arg |-> arg, pre |-> pre, after_all |-> after_all, res |-> res,
     payload |-> payload, msgs |-> msgs, io |-> io, got |-> Chain(op, res, io)]

Call(op, arg, res, payload, msgs, io) ==
    CallFrom(Pre, op = "fetch_delta" /\ last.op = "fetch_all" /\ last.res = "Ok",
             op, arg, res, payload, msgs, io)

\* a call that only returns: the cursor and the record of the call change
Return(op, arg, r) ==
    /\ current_messages_size' = r.cur
    /\ last' = Call(op, arg, r.res, r.payload, r.msgs, r.io)
    /\ UNCHANGED <<variant, address, username, password, use_tls, ws_connection,
                   local_ws, pc, srv_log>>

\* Client::new, WClient::new
Init ==
    /\ variant \in {"sync", "async", "wrac"}
    /\ current_messages_size = 0
    /\ address \in Addresses
    /\ username \in Usernames
    /\ password \in Passwords
    /\ use_tls \in BOOLEAN
    /\ ws_connection = None
    /\ local_ws = None
    /\ pc = "idle"
    /\ srv_log = <<>>
    /\ last = CallFrom(Pre, FALSE, "new", <<>>, "Ok", <<>>, <<>>, <<>>)

UpdateCredentials ==
    /\ pc = "idle"
    /\ \E u \in Usernames, p \in Passwords :
        /\ username' = u
        /\ password' = p
    /\ last' = Call("update_credentials", <<>>, "Ok", <<>>, <<>>, <<>>)
    /\ UNCHANGED <<variant, current_messages_size, address, use_tls, ws_connection,
                   local_ws, pc, srv_log>>

UpdateTls ==
    /\ pc = "idle"
    /\ \E b \in BOOLEAN : use_tls' = b
    /\ last' = Call("update_tls", <<>>, "Ok", <<>>, <<>>, <<>>)
    /\ UNCHANGED <<variant, current_messages_size, address, username, password,
                   ws_connection, local_ws, pc, srv_log>>

\* mutant: a new address drops the connection made to the old one
UpdateAddressTo_drops_connection(A) ==
    /\ pc = "idle"
    /\ \E a \in A : address' = a
    /\ ws_connection' = None
    /\ last' = Call("update_address", <<>>, "Ok", <<>>, <<>>, <<>>)
    /\ UNCHANGED <<variant, current_messages_size, username, password, use_tls,
                   local_ws, pc, srv_log>>

UpdateAddressTo(A) ==
    /\ pc = "idle"
    /\ \E a \in A : address' = a
    /\ last' = Call("update_address", <<>>, "Ok", <<>>, <<>>, <<>>)
    /\ UNCHANGED <<variant, current_messages_size, username, password, use_tls,
                   ws_connection, local_ws, pc, srv_log>>

UpdateAddress == UpdateAddressTo(Addresses)

TestConnection ==
    /\ pc = "idle"
    /\ variant # "wrac"
    /\ \E s \in Scripts1({ReadErr}) : Return("test_connection", <<>>, test_connection(s))

\* register_user of the stream clients
Register(R) ==
    /\ pc = "idle"
    /\ variant # "wrac"
    /\ \E s \in Scripts1(R) : Return("register", <<>>, register_user(s))

\* wrac's register_user up to the return of get_ws
RegisterConnect ==
    /\ pc = "idle"
    /\ variant = "wrac"
    /\ \E c \in WsConnOutcomes :
        IF c = "Ok"
        THEN /\ local_ws' = Some(WClient_get_ws)
             /\ pc' = "register"
             /\ last' = Call("register", <<>>, "Pending", <<>>, <<>>, <<EvOpen>>)
        ELSE /\ last' = Call("register", <<>>, c, <<>>, <<>>, <<EvOpenFail>>)
             /\ UNCHANGED <<local_ws, pc>>
    /\ UNCHANGED <<variant, current_messages_size, address, username, password, use_tls,
                   ws_connection, srv_log>>

\* wrac's register_user from there to its return, where `ws` is dropped
RegisterFinish(R) ==
    /\ pc = "register"
    /\ \E s \in Scripts1(R) :
        LET r == WClient_register_user(s)
        IN  last' = CallFrom(last.pre, last.after_all, "register", <<>>, r.res, r.payload, r.msgs, r.io)
    /\ local_ws' = None
    /\ pc' = "idle"
    /\ UNCHANGED <<variant, current_messages_size, address, username, password, use_tls,
                   ws_connection, srv_log>>

\* mutant: a prepare that cannot connect gives up the connection held
PrepareConnect_failure_clears ==
    /\ pc = "idle"
    /\ variant = "wrac"
    /\ \E c \in WsConnOutcomes :
        IF c = "Ok"
        THEN /\ local_ws' = Some(WClient_get_ws)
             /\ pc' = "prepare"
             /\ last' = Call("prepare", <<>>, "Pending", <<>>, <<>>, <<EvOpen>>)
             /\ UNCHANGED ws_connection
        ELSE /\ last' = Call("prepare", <<>>, c, <<>>, <<>>, <<EvOpenFail>>)
             /\ ws_connection' = None
             /\ UNCHANGED <<local_ws, pc>>
    /\ UNCHANGED <<variant, current_messages_size, address, username, password, use_tls,
                   srv_log>>

\* prepare up to the return of get_ws: self.ws_connection is not assigned yet
PrepareConnect ==
    /\ pc = "idle"
    /\ variant = "wrac"
    /\ \E c \in WsConnOutcomes :
        IF c = "Ok"
        THEN /\ local_ws' = Some(WClient_get_ws)
             /\ pc' = "prepare"
             /\ last' = Call("prepare", <<>>, "Pending", <<>>, <<>>, <<EvOpen>>)
        ELSE /\ last' = Call("prepare", <<>>, c, <<>>, <<>>, <<EvOpenFail>>)
             /\ UNCHANGED <<local_ws, pc>>
    /\ UNCHANGED <<variant, current_messages_size, address, username, password, use_tls,
                   ws_connection, srv_log>>

\* the assignment self.ws_connection = Some(ws), which drops the connection held
PrepareStore ==
    /\ pc = "prepare"
    /\ ws_connection' = local_ws
    /\ local_ws' = None
    /\ pc' = "idle"
    /\ last' = CallFrom(last.pre, last.after_all, "prepare", <<>>, "Ok", <<>>, <<>>,
                        <<EvOpen>> \o (IF is_some(ws_connection) THEN <<EvClose>> ELSE <<>>))
    /\ UNCHANGED <<variant, current_messages_size, address, username, password, use_tls,
                   srv_log>>

FetchSize(R) ==
    /\ pc = "idle"
    /\ \E s \in Scripts1(R) : Return("fetch_size", <<>>, fetch_messages_size(s))

FetchAll(R1, R2) ==
    /\ pc = "idle"
    /\ \E s \in Scripts2(R1, R2, {}) : Return("fetch_all", <<>>, fetch_all_messages(s))

FetchNew(R1, R2) ==
    /\ pc = "idle"
    /\ \E s \in Scripts2(R1, R2, R1) : Return("fetch_delta", <<>>, fetch_new_messages(s))

\* send_message and send_custom_message on a text of T
SendText(T, R) ==
    /\ pc = "idle"
    /\ \E m \in T, s \in Scripts1(R) : Return("send", m, send_message(m, s))

SendRawText(T, R) ==
    /\ pc = "idle"
    /\ \E m \in T, s \in Scripts1(R) : Return("send_raw", m, send_custom_message(m, s))

Send(R) == SendText(Texts, R)

SendRaw(R) == SendRawText(Texts, R)

Reset ==
    /\ pc = "idle"
    /\ current_messages_size' = reset.cur
    /\ address' = reset.address
    /\ username' = reset.username
    /\ password' = reset.password
    /\ use_tls' = reset.use_tls
    /\ ws_connection' = reset.ws
    /\ last' = Call("reset", <<>>, "Ok", <<>>, <<>>, reset.io)
    /\ UNCHANGED <<variant, local_ws, pc, srv_log>>

\* the server's log grows by a byte
ServerAppend ==
    /\ pc = "idle"
    /\ Len(srv_log) < MaxLog
    /\ \E b \in LogBytes : srv_log' = Append(srv_log, b)
    /\ last' = Call("server_append", <<>>, "Ok", <<>>, <<>>, <<>>)
    /\ UNCHANGED <<variant, current_messages_size, address, username, password, use_tls,
                   ws_connection, local_ws, pc>>

Next ==
    \/ UpdateCredentials
    \/ UpdateTls
    \/ UpdateAddress
    \/ TestConnection
    \/ Register(CoreStatusReads)
    \/ RegisterConnect
    \/ RegisterFinish(CoreStatusReads)
    \/ PrepareConnect
    \/ PrepareStore
    \/ FetchSize(CoreSizeReads)
    \/ FetchAll(CoreSizeReads, CoreBulkReads)
    \/ FetchNew(CoreSizeReads, CoreBulkReads)
    \/ Send(CoreStatusReads)
    \/ SendRaw(CoreStatusReads)
    \/ Reset
    \/ ServerAppend

Spec == Init /\ [][Next]_vars

(***************************************************************************)
(* The wire: one session per variant and every short reply a server can    *)
(* send to a size request and to a send.                                   *)
(***************************************************************************)
WireSizeReads ==
    {ReadErr} \cup {Data(x) : x \in SeqsUpTo(SizeBytes, MaxReplyLen)}
    \cup WsFrames({Text(x) : x \in SeqsUpTo(SizeBytes, MaxReplyLen)} \cup {OtherFrame})

WireStatusReads ==
    {ReadErr} \cup {Data(x) : x \in SeqsUpTo(StatusBytes, MaxStatusLen)}
    \cup WsFrames({Text(x) : x \in SeqsUpTo(StatusBytes, 1)} \cup {OtherFrame})

InitWire ==
    /\ Init
    /\ use_tls = FALSE

NextWire ==
    \/ PrepareConnect
    \/ PrepareStore
    \/ FetchSize(WireSizeReads)
    \/ Send(WireStatusReads)

SpecWire == InitWire /\ [][NextWire]_vars

(***************************************************************************)
(* The status exchanges: register and the two sends, on every short status *)
(* reply and on texts with no, one and two placeholders.                   *)
(***************************************************************************)
\* "a", "{username}", "{username}a{username}"
WireTexts == {<<97>>, Placeholder, Placeholder \o <<97>> \o Placeholder}

NextStatus ==
    \/ Register(WireStatusReads)
    \/ RegisterConnect
    \/ RegisterFinish(WireStatusReads)
    \/ PrepareConnect
    \/ PrepareStore
    \/ SendText(WireTexts, WireStatusReads)
    \/ SendRawText(WireTexts, WireStatusReads)

SpecStatus == InitWire /\ [][NextStatus]_vars

(***************************************************************************)
(* The stored log: a truthful server that starts with any short log, and   *)
(* the fetches of it.                                                      *)
(***************************************************************************)
InitBlob ==
    /\ variant \in {"sync", "async", "wrac"}
    /\ current_messages_size = 0
    /\ address \in Addresses
    /\ username \in Usernames
    /\ password = None
    /\ use_tls = FALSE
    /\ ws_connection = None
    /\ local_ws = None
    /\ pc = "idle"
    /\ srv_log \in SeqsUpTo(LogBytes, MaxBlob)
    /\ last = CallFrom(Pre, FALSE, "new", <<>>, "Ok", <<>>, <<>>, <<>>)

NextBlob ==
    \/ PrepareConnect
    \/ PrepareStore
    \/ FetchAll({ReadErr, Data(TrueSize)} \cup WsFrames({Text(TrueSize)}),
                {ReadErr, Data(srv_log)} \cup WsFrames({Text(srv_log)}))

SpecBlob == InitBlob /\ [][NextBlob]_vars

(***************************************************************************)
(* The setters: the session moved between two addresses, with prepare,     *)
(* reset and the size exchange around it.                                  *)
(***************************************************************************)
\* "h", "g"
TwoAddresses == {<<104>>, <<103>>}

NextSetters ==
    \/ UpdateCredentials
    \/ UpdateTls
    \/ UpdateAddressTo(TwoAddresses)
    \/ PrepareConnect
    \/ PrepareStore
    \/ FetchSize({ReadErr, Data(<<49>>)})
    \/ Reset

SpecSetters == Init /\ [][NextSetters]_vars

(***************************************************************************)
(* The chain of fetches: the stream clients against a truthful server      *)
(* whose log grows, the bytes they fetch recorded.                         *)
(***************************************************************************)
InitChain ==
    /\ variant \in {"sync", "async"}
    /\ current_messages_size = 0
    /\ address \in Addresses
    /\ username \in Usernames
    /\ password = None
    /\ use_tls = FALSE
    /\ ws_connection = None
    /\ local_ws = None
    /\ pc = "idle"
    /\ srv_log = <<>>
    /\ last = [CallFrom(Pre, FALSE, "new", <<>>, "Ok", <<>>, <<>>, <<>>)
                   EXCEPT !.got = NewChain]

NextChain ==
    \/ FetchSize({ReadErr, Data(TrueSize)})
    \/ FetchAll({ReadErr, Data(TrueSize)}, {ReadErr, Data(srv_log)})
    \/ FetchNew({ReadErr, Data(TrueSize)}, {ReadErr, Data(TrueDelta)})
    \/ ServerAppend

SpecChain == InitChain /\ [][NextChain]_vars

(***************************************************************************)
(* The truthful server: its log only grows, it reports its true total, and *)
(* it sends the log, or the log from the cursor on.                        *)
(***************************************************************************)
TruthfulSizeReads == {ReadErr, Data(TrueSize)} \cup WsFrames({Text(TrueSize)})

TruthfulAllReads == {ReadErr, Data(srv_log)} \cup WsFrames({Text(srv_log)})

TruthfulDeltaReads == {ReadErr, Data(TrueDelta)} \cup WsFrames({Text(TrueDelta)})

NextTruthful ==
    \/ Register(CoreStatusReads)
    \/ RegisterConnect
    \/ RegisterFinish(CoreStatusReads)
    \/ PrepareConnect
    \/ PrepareStore
    \/ FetchSize(TruthfulSizeReads)
    \/ FetchAll(TruthfulSizeReads, TruthfulAllReads)
    \/ FetchNew(TruthfulSizeReads, TruthfulDeltaReads)
    \/ Send(CoreStatusReads)
    \/ ServerAppend

SpecTruthful == Init /\ [][NextTruthful]_vars

(***************************************************************************)
(* Vocabulary of the properties.                                           *)
(***************************************************************************)
Returned == last.res # "Pending"
IsFailure(res) == res \notin {"Ok", "Pending", "Panic"}
ServerOps == {"register", "fetch_size", "fetch_all", "fetch_delta", "send", "send_raw"}
FetchOps == {"fetch_size", "fetch_all", "fetch_delta"}

\* the session fields a call found are the ones it left
SessionKept ==
    /\ current_messages_size = last.pre.cur
    /\ address = last.pre.address
    /\ username = last.pre.username
    /\ password = last.pre.password
    /\ use_tls = last.pre.use_tls

ReadsOf(io) == SelectSeq(io, LAMBDA e : e.k \in {"read", "read_text", "read_other"})
HasRead(io) == ReadsOf(io) # <<>>
\* the size response: what the first read of a fetch returned
SizeText(io) == ReadsOf(io)[1].b
\* no transport call of the trace failed
Clean(io) == \A i \in 1..Len(io) : io[i].k \notin {"open_fail", "write_fail", "read_fail"}

\* the number a text's decimal digits spell
RECURSIVE ValueOf(_)
ValueOf(d) == IF d = <<>> THEN 0 ELSE 10 * ValueOf(SubSeq(d, 1, Len(d) - 1)) + (d[Len(d)] - 48)
DigitsOf(text) == SelectSeq(text, IsDigit)

(***************************************************************************)
(* C1: register on a session without a password returns NoPassword and     *)
(* makes no transport call at all.  The code connects first.               *)
(***************************************************************************)
C1_RegisterWithoutPasswordTouchesNoTransport ==
    (last.op = "register" /\ Returned /\ is_none(last.pre.password))
        => (last.res = "NoPassword" /\ last.io = <<>>)

(***************************************************************************)
(* C2: an operation that returns a failure leaves cursor, address,         *)
(* username, password and TLS flag as they were.  fetch_all (and wrac's    *)
(* fetch_delta) store the size before the second exchange.                 *)
(***************************************************************************)
C2_FailureLeavesSessionUnchanged ==
    (last.op \in ServerOps \cup {"prepare"} /\ IsFailure(last.res)) => SessionKept

(***************************************************************************)
(* C3, as claimed: without a reset the cursor never decreases, whatever    *)
(* sizes the server reports.                                               *)
(***************************************************************************)
C3_CursorNeverDecreases ==
    last.op # "reset" => current_messages_size >= last.pre.cur

(***************************************************************************)
(* C3, amended: the cursor starts at 0, and a call other than reset lowers *)
(* it only by storing a size the server reported that is smaller than the  *)
(* cursor: the call is a fetch, and the cursor is the number its size      *)
(* response spells.                                                        *)
(***************************************************************************)
C3_CursorDropsOnlyToReportedSize ==
    /\ last.op = "new" => current_messages_size = 0
    /\ (last.op # "reset" /\ current_messages_size < last.pre.cur)
        => /\ last.op \in FetchOps
           /\ HasRead(last.io)
           /\ ValueOf(DigitsOf(SizeText(last.io))) = current_messages_size

C3_Witness ==
    /\ last.op = "fetch_delta"
    /\ last.res = "Ok"
    /\ current_messages_size < last.pre.cur

C5_DeltaAfterAllIsEmpty ==
    (/\ last.op = "fetch_delta"
     /\ last.after_all
     /\ last.pre.cur = Len(srv_log)
     /\ Clean(last.io)
     /\ HasRead(last.io)
     /\ SizeText(last.io) = TrueSize)
        => /\ last.res = "Ok"
           /\ last.msgs = <<>>
           /\ current_messages_size = last.pre.cur

C5_Witness ==
    /\ last.op = "fetch_delta"
    /\ last.after_all
    /\ last.pre.cur = Len(srv_log)
    /\ Len(srv_log) > 0
    /\ Clean(last.io)
    /\ HasRead(last.io)
    /\ SizeText(last.io) = TrueSize
    /\ last.res = "Ok"

(***************************************************************************)
(* C6: in the WebSocket client every operation that talks to the server,   *)
(* called while no connection is held, returns NoConnectionWRAC, opens no  *)
(* transport and sends no frame.  register_user never checks.              *)
(***************************************************************************)
C6_NotConnectedFailsWithoutTransport ==
    (variant = "wrac" /\ last.op \in ServerOps /\ Returned /\ is_none(last.pre.ws))
        => (last.res = "NoConnectionWRAC" /\ last.io = <<>>)

(***************************************************************************)
(* C7: at most one open transport belongs to the session, in every state.  *)
(***************************************************************************)
C7_AtMostOneLiveTransport == Cardinality(live_transports) <= 1

(***************************************************************************)
(* C8: reset leaves cursor 0, empty address, empty username and no         *)
(* password; in the WebSocket client it closes the connection held and     *)
(* leaves none.                                                            *)
(***************************************************************************)
C8_ResetClearsSession ==
    last.op = "reset"
        => /\ current_messages_size = 0
           /\ address = <<>>
           /\ username = <<>>
           /\ is_none(password)
           /\ variant = "wrac"
                => /\ is_none(ws_connection)
                   /\ live_transports = {}
                   /\ is_some(last.pre.ws) => last.io = <<EvClose>>

C8_Witness ==
    /\ last.op = "reset"
    /\ variant = "wrac"
    /\ is_some(last.pre.ws)
    /\ last.pre.cur > 0
    /\ is_some(last.pre.password)

(***************************************************************************)
(* C9: for a send on a session with a password the reply decides the       *)
(* result: first byte 0x01 is UserDoesNotExist, 0x02 is IncorrectPassword, *)
(* any other non-empty reply is UnexpectedResponse carrying the received   *)
(* bytes, and a zero-length reply is success.                              *)
(***************************************************************************)
AuthSend ==
    /\ Returned
    /\ last.op \in {"send", "send_raw"}
    /\ is_some(last.pre.password)
    /\ HasRead(last.io)

\* the reply of the send: the frame kind and the bytes received
Reply == ReadsOf(last.io)[1]

StatusResult(b, text) ==
    IF b = <<>> THEN last.res = "Ok"
    ELSE IF b[1] = 1 THEN last.res = "UserDoesNotExist"
    ELSE IF b[1] = 2 THEN last.res = "IncorrectPassword"
    ELSE last.res = "UnexpectedResponse" /\ last.payload = text

C9_ReplyDecidesResult == AuthSend => StatusResult(Reply.b, Reply.b)

\* "0123456789abcdef"
HexChars == <<48, 49, 50, 51, 52, 53, 54, 55, 56, 57, 97, 98, 99, 100, 101, 102>>
HexText(c) == <<48, 120, HexChars[(c \div 16) + 1], HexChars[(c % 16) + 1]>>
Utf8Text(b) == [i \in 1..Len(b) |-> IF b[i] >= 128 THEN 65533 ELSE b[i]]
SendBufLen == IF variant = "sync" THEN StatusBufLen ELSE AsyncSendBufLen

\* C9, amended: the stream clients read at most 2 (sync) or 16 (async) bytes
\* and an UnexpectedResponse carries their lossy UTF-8 text; the WebSocket
\* client decides on a binary frame alone, its UnexpectedResponse carries the
\* text "0x" and two hex digits of the first byte, and any other frame is
\* success.
C9_ReplyDecidesResultByVariant ==
    AuthSend =>
        IF variant # "wrac"
        THEN /\ Len(Reply.b) <= SendBufLen
             /\ StatusResult(Reply.b, Utf8Text(Reply.b))
        ELSE IF Reply.k = "read" THEN StatusResult(Reply.b, HexText(Reply.b[1]))
        ELSE last.res = "Ok"

C9_Witness ==
    /\ AuthSend
    /\ variant = "wrac"
    /\ Reply.k = "read"
    /\ Len(Reply.b) = 2
    /\ last.res = "UnexpectedResponse"
    /\ last.payload = <<48, 120, 48, 53>>

(***************************************************************************)
(* C10: for every valid ASCII decimal string returned as the size          *)
(* response, fetch_size succeeds and sets the cursor to the number the     *)
(* string spells; a non-decimal response is a ParseError that leaves the   *)
(* cursor unchanged.                                                       *)
(***************************************************************************)
SizeRead ==
    /\ Returned
    /\ last.op = "fetch_size"
    /\ HasRead(last.io)

IsDecimal(s) == s # <<>> /\ \A i \in 1..Len(s) : IsDigit(s[i])

C10_DecimalSizeSetsCursor ==
    SizeRead =>
        IF IsDecimal(SizeText(last.io))
        THEN last.res = "Ok" /\ current_messages_size = ValueOf(SizeText(last.io))
        ELSE last.res = "ParseError" /\ current_messages_size = last.pre.cur

\* the text the variant hands to the parser, and its digits after one '+'
ParsedText == IF variant = "wrac" THEN trim(SizeText(last.io)) ELSE SizeText(last.io)
Unsigned(s) == IF s # <<>> /\ s[1] = 43 THEN Tail(s) ELSE s
HasNul(s) == \E i \in 1..Len(s) : s[i] = 0

\* C10, amended: the response succeeds exactly when (after the WebSocket
\* client's trim) it is decimal digits behind at most one '+' and spells a
\* number that fits usize, and the cursor is then that number; every other
\* response leaves the cursor unchanged and is a ParseError, but in the async
\* client a zero-length response is ServerClosedConnection and a response
\* holding a NUL byte panics.
C10_ParsedSizeSetsCursor ==
    SizeRead =>
        IF variant = "async" /\ SizeText(last.io) = <<>>
        THEN last.res = "ServerClosedConnection" /\ current_messages_size = last.pre.cur
        ELSE IF variant = "async" /\ HasNul(SizeText(last.io))
        THEN last.res = "Panic" /\ current_messages_size = last.pre.cur
        ELSE IF IsDecimal(Unsigned(ParsedText)) /\ ValueOf(Unsigned(ParsedText)) <= UsizeMax
        THEN last.res = "Ok" /\ current_messages_size = ValueOf(Unsigned(ParsedText))
        ELSE last.res = "ParseError" /\ current_messages_size = last.pre.cur

C10_Witness ==
    /\ SizeRead
    /\ Len(SizeText(last.io)) = 2
    /\ last.res = "Ok"
    /\ current_messages_size >= 10
    /\ last.pre.cur # current_messages_size

(***************************************************************************)
(* C11: on every read path that expects text, null bytes anywhere in the   *)
(* received bytes are removed before integer parsing and before line       *)
(* splitting: a size response that is decimal once its null bytes are gone *)
(* is parsed as that number, and the messages of a fetch are the non-empty *)
(* lines of the blob without its null bytes.                               *)
(***************************************************************************)
NoNul(s) == SelectSeq(s, LAMBDA c : c # 0)

FetchRead ==
    /\ Returned
    /\ last.op \in FetchOps
    /\ HasRead(last.io)

\* the message blob: what the second read of a fetch returned
HasBlob(io) == Len(ReadsOf(io)) >= 2
BlobText(io) == ReadsOf(io)[2].b

C11_NullsRemovedBeforeParsing ==
    FetchRead =>
        /\ (IsDecimal(NoNul(SizeText(last.io))) /\ ValueOf(NoNul(SizeText(last.io))) <= UsizeMax
                => /\ last.res # "ParseError"
                   /\ last.res # "Panic"
                   /\ last.op = "fetch_size"
                        => /\ last.res = "Ok"
                           /\ current_messages_size = ValueOf(NoNul(SizeText(last.io))))
        /\ (last.res = "Ok" /\ HasBlob(last.io)
                => \A i \in 1..Len(last.msgs) : ~HasNul(last.msgs[i]))

(***************************************************************************)
(* C12: for every size response, fetch_size, fetch_all and fetch_delta end *)
(* by returning a value or a typed failure: a malformed size is a          *)
(* ParseError and the call never panics while it decodes the response.     *)
(***************************************************************************)
\* the response is malformed: with its null bytes and surrounding blanks gone
\* it is not empty and not a number the parser accepts
Malformed(s) ==
    LET t == trim(NoNul(s))
    IN  /\ t # <<>>
        /\ ~(IsDecimal(Unsigned(t)) /\ ValueOf(Unsigned(t)) <= UsizeMax)

C12_SizeDecodingNeverPanics ==
    FetchRead =>
        /\ last.res # "Panic"
        /\ Malformed(SizeText(last.io)) => last.res = "ParseError"

(***************************************************************************)
(* C13: in fetch_size, fetch_all and fetch_delta a zero-length read of the *)
(* size response fails with ServerClosedConnection (not ParseError, not    *)
(* success) and leaves the cursor unchanged.                               *)
(***************************************************************************)
C13_EmptySizeReadIsServerClosed ==
    (FetchRead /\ ReadsOf(last.io)[1].k = "read" /\ SizeText(last.io) = <<>>)
        => /\ last.res = "ServerClosedConnection"
           /\ current_messages_size = last.pre.cur

(***************************************************************************)
(* C14: a fetch_delta of the stream clients works on one connection, in    *)
(* this order: write 0x00, read the size response, write 0x02 and the      *)
(* decimal text of the cursor held before the call, read exactly the new   *)
(* total minus that cursor bytes, and only then store the new total; no    *)
(* call that fails leaves the cursor overwritten.                          *)
(***************************************************************************)
StreamDelta ==
    /\ Returned
    /\ last.op = "fetch_delta"
    /\ variant # "wrac"

\* the decimal text of n, without leading zeros
IsDecimalOf(d, n) ==
    /\ IsDecimal(d)
    /\ ValueOf(d) = n
    /\ Len(d) = 1 \/ d[1] # 48

IsDeltaRequest(e) == e.k \in {"write", "write_fail"} /\ e.b # <<>> /\ e.b[1] = 2

C14_DeltaExchangeOrder ==
    StreamDelta =>
        LET io == last.io
            n == Len(io)
        IN  /\ Cardinality({i \in 1..n : io[i].k \in {"open", "open_fail"}}) = 1
            /\ \A i \in 1..n :
                   IsDeltaRequest(io[i])
                       => /\ i = 4
                          /\ io[2] = EvWrite(<<0>>)
                          /\ io[3].k = "read"
                          /\ IsDecimalOf(Tail(io[i].b), last.pre.cur)
            /\ last.res # "Ok" => current_messages_size = last.pre.cur
            /\ last.res = "Ok"
                   => /\ n \in {5, 6}
                      /\ io[1] = EvOpen
                      /\ io[4].k = "write" /\ IsDeltaRequest(io[4])
                      /\ io[n] = EvClose
                      /\ current_messages_size = ValueOf(Unsigned(io[3].b))
                      /\ n = 5 => current_messages_size = last.pre.cur
                      /\ n = 6 => /\ io[5].k = "read"
                                  /\ (last.pre.cur + Len(io[5].b)) % (UsizeMax + 1)
                                         = current_messages_size

C14_Witness ==
    /\ StreamDelta
    /\ last.res = "Ok"
    /\ last.pre.cur > 0
    /\ Len(last.io) = 6
    /\ current_messages_size > last.pre.cur

(***************************************************************************)
(* C15: the WebSocket client's delta request, sent when the server's total *)
(* has grown, is the opcode byte 0x02 followed by the decimal text of the  *)
(* cursor held before the call.                                            *)
(***************************************************************************)
WsDelta ==
    /\ Returned
    /\ last.op = "fetch_delta"
    /\ variant = "wrac"

C15_DeltaRequestCarriesPreviousCursor ==
    (WsDelta /\ Len(last.io) >= 3)
        => /\ IsDeltaRequest(last.io[3])
           /\ IsDecimalOf(Tail(last.io[3].b), last.pre.cur)

(***************************************************************************)
(* C16: in the WebSocket client's fetch_delta, when the size the size step *)
(* learned is not larger than the cursor held before the call, the call    *)
(* returns success with an empty list, and the size exchange is its only   *)
(* network exchange: no delta request is sent and no further frame read.   *)
(***************************************************************************)
\* the size step of the call succeeded, and this is the size it learned
SizeLearned ==
    /\ HasRead(last.io)
    /\ IsDecimal(Unsigned(ParsedText))
    /\ ValueOf(Unsigned(ParsedText)) <= UsizeMax

C16_NoGrowthSendsNoDeltaRequest ==
    (WsDelta /\ SizeLearned /\ ValueOf(Unsigned(ParsedText)) <= last.pre.cur)
        => /\ last.res = "Ok"
           /\ last.msgs = <<>>
           /\ Len(last.io) = 2
           /\ last.io[1] = EvWrite(<<0>>)
           /\ last.io[2].k \in {"read", "read_text"}

C16_Witness ==
    /\ WsDelta
    /\ SizeLearned
    /\ last.pre.cur > 0
    /\ ValueOf(Unsigned(ParsedText)) < last.pre.cur
    /\ last.res = "Ok"

(***************************************************************************)
(* C17: no request frame carries an inconsistent authentication tag: a     *)
(* send frame is 0x02, username, password and message exactly when the     *)
(* session has a password, and 0x01 and the message alone exactly when it  *)
(* has none; a register frame (0x03) is written only with a password.      *)
(***************************************************************************)
IsWriteEvent(e) == e.k \in {"write", "write_fail"}

\* the message a send puts on the wire
SentMessage ==
    IF last.op = "send" THEN replace(last.arg, Placeholder, last.pre.username) ELSE last.arg

C17_AuthTagMatchesPassword ==
    Returned =>
        \A i \in 1..Len(last.io) :
            IsWriteEvent(last.io[i]) =>
                LET b == last.io[i].b
                    p == last.pre.password
                IN  /\ last.op \in {"send", "send_raw"} =>
                           IF is_some(p)
                           THEN b = <<2>> \o last.pre.username \o <<10>> \o p[1]
                                        \o <<10>> \o SentMessage
                           ELSE b = <<1>> \o SentMessage
                    /\ last.op = "register" =>
                           /\ is_some(p)
                           /\ b = <<3>> \o last.pre.username \o <<10>> \o p[1]
                    /\ b[1] = 3 => last.op = "register"

C17_Witness ==
    /\ Returned
    /\ last.op = "send"
    /\ is_none(last.pre.password)
    /\ last.res = "Ok"
    /\ \E i \in 1..Len(last.io) : last.io[i].k = "write" /\ last.io[i].b[1] = 1

(***************************************************************************)
(* C18: no failure is swallowed: when the read of the status reply fails   *)
(* with a transport error during register or an authenticated send, the    *)
(* call returns a read failure, not success; of the replies in bytes only  *)
(* a zero-length one is success.                                           *)
(***************************************************************************)
StatusExchange ==
    /\ Returned
    /\ last.op \in {"register", "send", "send_raw"}
    /\ is_some(last.pre.password)

ReadFailed(io) == \E i \in 1..Len(io) : io[i].k = "read_fail"

C18_ReadFailureIsReturned ==
    StatusExchange =>
        /\ ReadFailed(last.io) => last.res \in {"StreamReadError", "WsReadError"}
        /\ (HasRead(last.io) /\ ReadsOf(last.io)[1].k = "read"
                /\ ReadsOf(last.io)[1].b # <<>>) => last.res # "Ok"

(***************************************************************************)
(* C19: against a server whose log only grows and which reports its total  *)
(* truthfully, the cursor never exceeds the server's true total, after any *)
(* sequence of fetch_size, fetch_all, fetch_delta, send and register.      *)
(***************************************************************************)
C19_CursorWithinServerTotal == current_messages_size <= Len(srv_log)

C19_Witness ==
    /\ Returned
    /\ last.op = "fetch_delta"
    /\ last.res = "Ok"
    /\ last.pre.cur > 0
    /\ last.pre.cur < current_messages_size
    /\ current_messages_size = Len(srv_log)

(***************************************************************************)
(* C20: the synchronous and the asynchronous stream client offer the same  *)
(* contract: from equal session state and on the same server bytes, a call *)
(* returns the same result or the same failure kind in both and ends with  *)
(* the same cursor.                                                        *)
(***************************************************************************)
\* the exchange of a call that connected, wrote, and read these bytes
Replayed(b) == Scr("Ok", TRUE, Data(b), TRUE, ReadErr, FALSE)

C20_StreamBindingsAgree ==
    /\ (SizeRead /\ variant # "wrac") =>
           LET s == Replayed(SizeText(last.io))
               other == IF variant = "sync" THEN AsyncClient_fetch_messages_size(s)
                        ELSE Client_fetch_messages_size(s)
           IN  /\ other.res = last.res
               /\ other.res = "Ok" => other.cur = current_messages_size
    /\ (AuthSend /\ variant = "async") =>
           Client_send_custom_message(SentMessage, Replayed(Reply.b)).res = last.res

(***************************************************************************)
(* C21: register on a session with a password writes 0x03, the username, a *)
(* newline and the password, then decodes the reply: first byte 0x01 is    *)
(* UsernameAlreadyTaken, any other non-empty reply is UnexpectedResponse,  *)
(* and a zero-length reply is success.  The replies are bytes of the       *)
(* stream and binary frames of the WebSocket.                              *)
(***************************************************************************)
RegisterReply ==
    /\ Returned
    /\ last.op = "register"
    /\ is_some(last.pre.password)
    /\ HasRead(last.io)
    /\ Reply.k = "read"

LongStatusReply ==
    /\ StatusExchange
    /\ HasRead(last.io)
    /\ Reply.k = "read"
    /\ Len(Reply.b) >= 2

RECURSIVE Substituted(_, _)
Substituted(t, u) ==
    IF Len(t) < Len(Placeholder) THEN t
    ELSE IF SubSeq(t, 1, Len(Placeholder)) = Placeholder
    THEN u \o Substituted(SubSeq(t, Len(Placeholder) + 1, Len(t)), u)
    ELSE <<t[1]>> \o Substituted(SubSeq(t, 2, Len(t)), u)

\* what precedes the message in a send frame
SendHeader ==
    IF is_some(last.pre.password)
    THEN <<2>> \o last.pre.username \o <<10>> \o last.pre.password[1] \o <<10>>
    ELSE <<1>>

\* the transport outcomes a call met, read back from its trace
ScriptOf(io, res) ==
    LET failed(k) == \E i \in 1..Len(io) : io[i].k = k
        frame == IF failed("read_fail") \/ ~HasRead(io) THEN ReadErr
                 ELSE IF ReadsOf(io)[1].k = "read" THEN Data(ReadsOf(io)[1].b)
                 ELSE IF ReadsOf(io)[1].k = "read_text" THEN Text(ReadsOf(io)[1].b)
                 ELSE OtherFrame
    IN  Scr(IF failed("open_fail") THEN res ELSE "Ok", ~failed("write_fail"), frame,
            TRUE, ReadErr, FALSE)

C23_SendSubstitutesUsername ==
    (Returned /\ last.op \in {"send", "send_raw"}) =>
        LET msg == IF last.op = "send" THEN Substituted(last.arg, last.pre.username)
                   ELSE last.arg
            raw == send_custom_message(msg, ScriptOf(last.io, last.res))
        IN  /\ \A i \in 1..Len(last.io) :
                   IsWriteEvent(last.io[i]) => last.io[i].b = SendHeader \o msg
            /\ raw.res = last.res
            /\ raw.payload = last.payload
            /\ raw.io = last.io

C23_Witness ==
    /\ Returned
    /\ last.op = "send"
    /\ last.arg = Placeholder \o <<97>> \o Placeholder
    /\ last.res = "Ok"
    /\ \E i \in 1..Len(last.io) :
           /\ last.io[i].k = "write"
           /\ last.io[i].b = SendHeader \o last.pre.username \o <<97>> \o last.pre.username

(***************************************************************************)
(* C24: in a fetch_delta of the stream clients, when the server reports a  *)
(* total below the stored cursor, nothing guards the subtraction: the call *)
(* neither clamps the length to zero nor returns a failure of its own; it  *)
(* panics, or with wrapping arithmetic asks the stream for the total minus *)
(* the cursor modulo 2^w bytes.                                            *)
(***************************************************************************)
\* a delta request was written after the server reported less than the cursor
ShrunkTotal ==
    /\ StreamDelta
    /\ HasRead(last.io)
    /\ IsDecimal(Unsigned(SizeText(last.io)))
    /\ ValueOf(Unsigned(SizeText(last.io))) < last.pre.cur
    /\ Len(last.io) >= 4
    /\ last.io[4].k = "write"

C24_ShrunkTotalUnderflows ==
    ShrunkTotal =>
        LET total == ValueOf(Unsigned(SizeText(last.io)))
            wrapped == (total - last.pre.cur) % (UsizeMax + 1)
        IN  \/ /\ last.res = "Panic"
               /\ current_messages_size = last.pre.cur
            \/ /\ last.res = "StreamReadError"
               /\ last.io[5] = EvReadFail
               /\ current_messages_size = last.pre.cur
            \/ /\ last.res = "Ok"
               /\ last.io[5].k = "read"
               /\ Len(last.io[5].b) = wrapped
               /\ wrapped > 0
               /\ current_messages_size = total

C24_Witness ==
    /\ ShrunkTotal
    /\ last.res = "Panic"

(***************************************************************************)
(* C25: a fetch_all of the stream clients works on one connection, in this *)
(* order: write 0x00, read the size response, write 0x01, read exactly as  *)
(* many bytes as the total just learned; on success the cursor is that     *)
(* total and the result is the blob's lines in order, the empty ones       *)
(* discarded.                                                              *)
(***************************************************************************)
StreamAll ==
    /\ Returned
    /\ last.op = "fetch_all"
    /\ variant # "wrac"

\* the non-empty lines of b, collected byte by byte
RECURSIVE SplitLines(_, _)
SplitLines(b, line) ==
    IF b = <<>> THEN (IF line = <<>> THEN <<>> ELSE <<line>>)
    ELSE IF b[1] = 10
    THEN (IF line = <<>> THEN <<>> ELSE <<line>>) \o SplitLines(Tail(b), <<>>)
    ELSE SplitLines(Tail(b), Append(line, b[1]))

C25_AllExchangeOrder ==
    StreamAll =>
        LET io == last.io
            n == Len(io)
        IN  /\ Cardinality({i \in 1..n : io[i].k \in {"open", "open_fail"}}) = 1
            /\ \A i \in 1..n :
                   (IsWriteEvent(io[i]) /\ io[i].b = <<1>>)
                       => i = 4 /\ io[2] = EvWrite(<<0>>) /\ io[3].k = "read"
            /\ last.res = "Ok"
                   => /\ n \in {5, 6}
                      /\ io[1] = EvOpen
                      /\ io[4] = EvWrite(<<1>>)
                      /\ io[n] = EvClose
                      /\ current_messages_size = ValueOf(Unsigned(io[3].b))
                      /\ n = 5 => current_messages_size = 0 /\ last.msgs = <<>>
                      /\ n = 6 => /\ io[5].k = "read"
                                  /\ Len(io[5].b) = current_messages_size
                                  /\ last.msgs = SplitLines(io[5].b, <<>>)

\* "a\n\na\n" yields exactly ["a", "a"]
C25_Witness ==
    /\ StreamAll
    /\ last.res = "Ok"
    /\ Len(last.io) = 6
    /\ last.io[5].b = <<97, 10, 10, 97, 10>>
    /\ last.msgs = <<<<97>>, <<97>>>>
    /\ current_messages_size = 5

(***************************************************************************)
(* C29: in the stream clients, against a server whose log only grows and   *)
(* which answers a delta request with the bytes from the requested cursor  *)
(* on, a sequence of successful fetch_all and fetch_delta calls with no    *)
(* fetch_size in between retrieves the log without loss or duplication:    *)
(* the bytes read by the first fetch_all and the fetch_delta calls after   *)
(* it, put together, are the log's prefix of length cursor.                *)
(***************************************************************************)
C29_ChainRetrievesLogPrefix ==
    (variant # "wrac" /\ last.got.on /\ last.got.ok)
        => /\ current_messages_size <= Len(srv_log)
           /\ last.got.b = SubSeq(srv_log, 1, current_messages_size)

C29_Witness ==
    /\ variant # "wrac"
    /\ last.got.ok
    /\ last.op = "fetch_delta"
    /\ last.res = "Ok"
    /\ last.pre.cur > 0
    /\ Len(last.got.b) > last.pre.cur

(***************************************************************************)
(* C26: the stream clients are stateless per call: each of test_connection,*)
(* register, fetch_size, fetch_all, fetch_delta, send and send_raw asks    *)
(* for exactly one connection, before anything else; when it is opened     *)
(* every write and read of the call lies between the open and the one      *)
(* close, which is the call's last transport event, on success and on      *)
(* failure; the session holds no open connection in any state.             *)
(***************************************************************************)
StreamOps == ServerOps \cup {"test_connection"}

StreamCall ==
    /\ variant # "wrac"
    /\ Returned
    /\ last.op \in StreamOps

CountOf(io, kinds) == Cardinality({i \in 1..Len(io) : io[i].k \in kinds})

C26_StreamOneConnectionPerCall ==
    /\ variant # "wrac" => live_transports = {} /\ is_none(ws_connection)
    /\ StreamCall =>
           LET io == last.io
           IN  /\ Len(io) >= 1
               /\ CountOf(io, {"open", "open_fail"}) = 1
               /\ io[1].k \in {"open", "open_fail"}
               /\ io[1] = EvOpenFail => Len(io) = 1 /\ IsFailure(last.res)
               /\ io[1] = EvOpen =>
                      /\ CountOf(io, {"close"}) = 1
                      /\ io[Len(io)] = EvClose

C26_Witness ==
    /\ StreamCall
    /\ last.op = "fetch_delta"
    /\ last.res = "Ok"
    /\ Len(last.io) = 6
    /\ last.io[1] = EvOpen
    /\ last.io[6] = EvClose

(***************************************************************************)
(* C27: a send on a session without a password writes one frame, 0x01      *)
(* followed by the message, and reads no reply: once the write succeeded    *)
(* the result is success, whatever the server would have answered.         *)
(***************************************************************************)
AnonSend ==
    /\ Returned
    /\ last.op \in {"send", "send_raw"}
    /\ is_none(last.pre.password)

WritesOf(io) == SelectSeq(io, IsWriteEvent)

C27_AnonymousSendReadsNoReply ==
    AnonSend =>
        LET io == last.io
            s == ScriptOf(io, last.res)
        IN  /\ ~HasRead(io) /\ ~ReadFailed(io)
            /\ Len(WritesOf(io)) <= 1
            /\ \A i \in 1..Len(io) :
                   /\ IsWriteEvent(io[i]) => io[i].b = <<1>> \o SentMessage
                   /\ io[i].k = "write" => last.res = "Ok"
            /\ last.res = "Ok" => Len(WritesOf(io)) = 1
            /\ \A r \in WireStatusReads :
                   LET other == send_custom_message(SentMessage, [s EXCEPT !.r1 = r])
                   IN  other.res = last.res /\ other.io = io

C27_Witness ==
    /\ AnonSend
    /\ last.op = "send"
    /\ last.res = "Ok"
    /\ WritesOf(last.io) = <<EvWrite(<<1>> \o last.pre.username)>>
    /\ last.arg = Placeholder

(***************************************************************************)
(* C28: in the WebSocket client the connection is absent until a prepare   *)
(* succeeds and is cleared by reset; no other call sets or clears it. A    *)
(* fetch_size, fetch_all, fetch_delta, send or send_raw fails with         *)
(* NoConnectionWRAC exactly when no connection is held: after a reset      *)
(* until a prepare succeeds, and never after a successful prepare.         *)
(***************************************************************************)
ConnectedOps == {"fetch_size", "fetch_all", "fetch_delta", "send", "send_raw"}

C28_ConnectionFollowsPrepareAndReset ==
    (variant = "wrac" /\ Returned) =>
        /\ last.op = "new" => is_none(ws_connection)
        /\ last.op = "reset" => is_none(ws_connection)
        /\ last.op = "prepare" =>
               IF last.res = "Ok" THEN is_some(ws_connection)
               ELSE ws_connection = last.pre.ws
        /\ last.op \notin {"new", "reset", "prepare"} => ws_connection = last.pre.ws
        /\ last.op \in ConnectedOps =>
               (last.res = "NoConnectionWRAC" <=> is_none(last.pre.ws))

C28_Witness ==
    /\ variant = "wrac"
    /\ Returned
    /\ last.op = "fetch_delta"
    /\ last.res = "NoConnectionWRAC"
    /\ is_none(ws_connection)
    /\ address = <<>>
    /\ is_none(password)

(***************************************************************************)
(* C30: register, send, send_raw and test_connection leave the session as  *)
(* they found it, whatever their outcome: cursor, address, username,       *)
(* password and TLS flag are the same after the call as before it; in the  *)
(* WebSocket client send and send_raw neither open nor close a connection  *)
(* and leave the one held in place.                                        *)
(***************************************************************************)
NeutralOps == {"register", "send", "send_raw", "test_connection"}

C30_NeutralOpsKeepSession ==
    last.op \in NeutralOps =>
        /\ SessionKept
        /\ (variant = "wrac" /\ last.op \in {"send", "send_raw"}) =>
               /\ ws_connection = last.pre.ws
               /\ CountOf(last.io, {"open", "open_fail", "close"}) = 0
               /\ live_transports = (IF is_some(last.pre.ws) THEN {last.pre.ws[1].id} ELSE {})

C30_Witness ==
    /\ last.op = "test_connection"
    /\ last.res = "Ok"
    /\ last.pre.cur > 0
    /\ current_messages_size = last.pre.cur
    /\ is_some(password)

(***************************************************************************)
(* C31: update_credentials, update_tls and update_address change only the  *)
(* fields they name: the cursor keeps its value, also when the address     *)
(* changes, and they touch no transport. In the WebSocket client the       *)
(* connection held is neither closed nor made anew, so an operation after  *)
(* update_address runs on the connection made to the old address and       *)
(* leaves it in place.                                                     *)
(***************************************************************************)
Setters == {"update_credentials", "update_tls", "update_address"}

HeldBefore == IF is_some(last.pre.ws) THEN {last.pre.ws[1].id} ELSE {}

C31_SettersChangeOnlyTheirFields ==
    /\ last.op \in Setters =>
           /\ current_messages_size = last.pre.cur
           /\ ws_connection = last.pre.ws
           /\ live_transports = HeldBefore
           /\ last.io = <<>>
           /\ last.res = "Ok"
           /\ last.op # "update_address" => address = last.pre.address
           /\ last.op # "update_tls" => use_tls = last.pre.use_tls
           /\ last.op # "update_credentials" =>
                  username = last.pre.username /\ password = last.pre.password
    /\ (variant = "wrac" /\ Returned /\ last.op \in ConnectedOps /\ is_some(last.pre.ws)) =>
           /\ ws_connection = last.pre.ws
           /\ CountOf(last.io, {"open", "open_fail", "close"}) = 0
           /\ last.res # "NoConnectionWRAC"

C31_Witness ==
    /\ variant = "wrac"
    /\ last.op = "fetch_size"
    /\ last.res = "Ok"
    /\ is_some(ws_connection)
    /\ ws_connection[1].addr # address
    /\ address # <<>>
    /\ current_messages_size > 0

(***************************************************************************)
(* C32: in the WebSocket client a prepare that fails to connect leaves the *)
(* connection as it was before the call, absent or the one prepared        *)
(* earlier, still held and open, and changes no other field of the         *)
(* session; a prepare that succeeds on a session that holds a connection   *)
(* puts the new connection in its place and drops the old one.             *)
(***************************************************************************)
PrepareCall ==
    /\ variant = "wrac"
    /\ last.op = "prepare"
    /\ Returned

C32_FailedPrepareKeepsConnection ==
    PrepareCall =>
        /\ SessionKept
        /\ last.res # "Ok" =>
               /\ ws_connection = last.pre.ws
               /\ live_transports = HeldBefore
               /\ last.io = <<EvOpenFail>>
        /\ last.res = "Ok" =>
               /\ is_some(ws_connection)
               /\ ws_connection[1].addr = address
               /\ live_transports = {ws_connection[1].id}
               /\ last.io = <<EvOpen>> \o (IF is_some(last.pre.ws) THEN <<EvClose>> ELSE <<>>)
               /\ is_some(last.pre.ws) => ws_connection[1].id # last.pre.ws[1].id

C32_Witness ==
    /\ PrepareCall
    /\ last.res = "TlsInitializationError"
    /\ is_some(last.pre.ws)
    /\ ws_connection = last.pre.ws
    /\ ws_connection[1].addr # address

\* a prepare that succeeded on a session connected to another address
C32_Replaced ==
    /\ PrepareCall
    /\ last.res = "Ok"
    /\ is_some(last.pre.ws)
    /\ last.pre.ws[1].addr # address

(***************************************************************************)
(* C33: reset leaves the TLS flag as it was in the synchronous and the     *)
(* asynchronous stream client, and sets it to false in the WebSocket       *)
(* client.                                                                 *)
(***************************************************************************)
C33_ResetTlsFlagByVariant ==
    last.op = "reset" =>
        IF variant = "wrac" THEN use_tls = FALSE ELSE use_tls = last.pre.use_tls

C33_Witness ==
    /\ last.op = "reset"
    /\ variant = "sync"
    /\ last.pre.use_tls
    /\ use_tls
    /\ last.pre.cur > 0
    /\ current_messages_size = 0

\* the WebSocket client's reset on a session that had the flag set
C33_WsFlagCleared ==
    /\ last.op = "reset"
    /\ variant = "wrac"
    /\ last.pre.use_tls
    /\ ~use_tls

====
